---- MODULE Spec2Model ----
(***************************************************************************)
(* Anti-repeat selection engine of everyday_oracle_bot (src/main.py):      *)
(* the state file state.json, the text picker pick_non_repeating and the   *)
(* image picker pick_image_non_repeating, and the message handlers that    *)
(* call them under the asyncio event loop.                                 *)
(*                                                                         *)
(* Three specifications share the same operators:                          *)
(*   Spec        picks as atomic operations (a pick holds no await), the   *)
(*               state file readable and writable;                         *)
(*   SpecFault   the same picks with a state file that may be missing,     *)
(*               unparseable or not a mapping, and writes that may fail;   *)
(*   SpecLoop    handler tasks stepping through their picks statement by   *)
(*               statement under the event loop's scheduling.              *)
(***************************************************************************)
EXTENDS Integers, Sequences, FiniteSets, TLC

\* ------------------------------------------------------------------ bounds

\* Depth of the anti-repeat memory.  main.py:34 sets 20; the model scales it
\* down, and every pool below is sized relative to it.
RECENT_N == 2

\* Longest run of consecutive picks with one candidate sequence that the
\* model follows for one (user, category): two full reset cycles and the pick after them.
MaxRun == 2 * RECENT_N + 1

\* ----------------------------------------------------------- environment

Users == {1, 2}
Cats == {"songs", "affirmations"}

\* The (user, category) pairs that send requests.  For the observed pair the
\* model varies the quote source and the image folder in full and follows the
\* run of picks; the other pairs see one quote and a folder without pictures.
Requests == {<<1, "songs">>, <<1, "affirmations">>, <<2, "songs">>}
Observed == <<1, "songs">>

IMG_EXTS == {".jpg", ".jpeg", ".png"}

\* pick_non_repeating's substitute for an empty list ("(нет данных)").
PLACEHOLDER == "(no data)"

AllTexts == <<"a", "b", "c", "d", "e">>

Range(s) == {s[i] : i \in DOMAIN s}

\* _hash_text: the first 16 hex digits of the SHA-1 of the text.  The values
\* are the real digests; distinct texts of the corpus have distinct ones.
_hash_text(s) ==
    CASE s = "a" -> "86f7e437faa5a7fc"
      [] s = "b" -> "e9d71f5ee7c92d6d"
      [] s = "c" -> "84a516841ba77a5b"
      [] s = "d" -> "3c363836cf4e1666"
      [] s = "e" -> "58e6b3a414a1e090"
      [] s = PLACEHOLDER -> "7d41b6d78483fa65"

\* str(user_id)
Str(user_id) == CASE user_id = 1 -> "1" [] user_id = 2 -> "2"

\* Candidate sequences a handler may pass: the first n texts for n from 0 to
\* RECENT_N + 1, and one of RECENT_N + 1 lines that repeats two texts.
Prefix(n) == SubSeq(AllTexts, 1, n)
DupPool == [i \in 1..(RECENT_N + 1) |-> AllTexts[1 + (i % 2)]]
Pools == {Prefix(n) : n \in 0..(RECENT_N + 1)} \cup {DupPool}

PoolsOf(u, c) == IF <<u, c>> = Observed THEN Pools ELSE {Prefix(1)}

\* ------------------------------------------------------------ dictionaries

\* A Python dict with string keys is a function; {} is the empty function.
EmptyDict == <<>>

Put(d, k, v) == [x \in (DOMAIN d) \cup {k} |-> IF x = k THEN v ELSE d[x]]

\* dict.get(k, default)
Get(d, k, default) == IF k \in DOMAIN d THEN d[k] ELSE default

\* dict.setdefault(k, default): the dict after the call.
SetDefault(d, k, default) == IF k \in DOMAIN d THEN d ELSE Put(d, k, default)

\* ---------------------------------------------------------- the state file

\* state.json: missing, unparseable text, or a JSON document.  A document is
\* the value json.loads gives: a dict (the state root) or another JSON type.
FileMissing == [kind |-> "missing", type |-> "none", val |-> EmptyDict]
FileGarbage == [kind |-> "garbage", type |-> "none", val |-> EmptyDict]
FileList == [kind |-> "json", type |-> "list", val |-> EmptyDict]
FileOf(st) == [kind |-> "json", type |-> "dict", val |-> st]

\* _load_state: {} when the file is missing or json.loads raises, else the
\* parsed document whatever its type.
_load_state(f) ==
    IF f.kind = "json" THEN [type |-> f.type, val |-> f.val]
    ELSE [type |-> "dict", val |-> EmptyDict]

\* Variant: nothing is written.
SaveNothing(st, f, w) == f

\* _save_state under write outcome w.  write_text opens the file for writing,
\* which truncates it, then writes: "ok" leaves the new document, "denied"
\* (open fails) leaves the file as it was, "partial" (the write fails after
\* the open, as on a full disk) leaves truncated text.  No outcome raises.
WriteOutcomes == {"ok", "denied", "partial"}

_save_state(st, f, w) ==
    CASE w = "ok" -> FileOf(st)
      [] w = "denied" -> f
      [] w = "partial" -> FileGarbage

\* ------------------------------------------------------- recency buckets

\* _user_bucket: the dict after the two setdefault calls, and the list
\* returned.
UserBucketSt(st, user_id, cat_key) ==
    LET st1 == SetDefault(st, Str(user_id), EmptyDict)
    IN  Put(st1, Str(user_id), SetDefault(st1[Str(user_id)], cat_key, <<>>))

\* Variant: the bucket is read as empty.
UserBucketForgotten(st, user_id, cat_key) == <<>>

_user_bucket(st, user_id, cat_key) ==
    UserBucketSt(st, user_id, cat_key)[Str(user_id)][cat_key]

\* Variant: the truncation left out.
TruncateNever(bucket) == bucket

\* Variant: one entry fewer is kept.
TruncateShort(bucket) ==
    IF Len(bucket) >= RECENT_N
    THEN SubSeq(bucket, Len(bucket) - RECENT_N + 2, Len(bucket))
    ELSE bucket

\* Variant: the newest entries are dropped.
TruncateKeepOldest(bucket) ==
    IF Len(bucket) > RECENT_N THEN SubSeq(bucket, 1, RECENT_N) ELSE bucket

\* del bucket[: len(bucket) - RECENT_N] when len(bucket) > RECENT_N
Truncate(bucket) ==
    IF Len(bucket) > RECENT_N
    THEN SubSeq(bucket, Len(bucket) - RECENT_N + 1, Len(bucket))
    ELSE bucket

\* Variant: the key is not appended.
RememberNothing(st, user_id, cat_key, key) == UserBucketSt(st, user_id, cat_key)

\* _remember: the dict after appending key to the bucket and truncating.
_remember(st, user_id, cat_key, key) ==
    LET st1 == UserBucketSt(st, user_id, cat_key)
        u == st1[Str(user_id)]
    IN  Put(st1, Str(user_id), Put(u, cat_key, Truncate(Append(u[cat_key], key))))

\* Variant: the filter left out.
EligibleAll(items, seen) == items

\* Variant: of the lines with one text only the first is filtered out.
EligibleFirstCopy(items, seen) ==
    LET kept[i \in 0..Len(items)] ==
            IF i = 0 THEN <<>>
            ELSE IF \/ _hash_text(items[i]) \notin seen
                    \/ \E j \in 1..(i - 1) : items[j] = items[i]
                 THEN Append(kept[i - 1], items[i])
                 ELSE kept[i - 1]
    IN  kept[Len(items)]

\* candidates = [x for x in items if _hash_text(x) not in seen]
Eligible(items, seen) == SelectSeq(items, LAMBDA x : _hash_text(x) \notin seen)

\* Variant: the bucket is not cleared.
ResetBucketKeep(st, user_id, cat_key) == UserBucketSt(st, user_id, cat_key)

\* Variant: the oldest entry alone is evicted.
ResetBucketEvictOldest(st, user_id, cat_key) ==
    LET st1 == UserBucketSt(st, user_id, cat_key)
        bucket == st1[Str(user_id)][cat_key]
    IN  Put(st1, Str(user_id),
            Put(st1[Str(user_id)], cat_key, IF bucket = <<>> THEN <<>> ELSE Tail(bucket)))

\* st.setdefault(str(user_id), {})[cat_key] = []
ResetBucket(st, user_id, cat_key) ==
    LET st1 == SetDefault(st, Str(user_id), EmptyDict)
    IN  Put(st1, Str(user_id), Put(st1[Str(user_id)], cat_key, <<>>))

\* Variant: no placeholder.
OrPlaceholderNone(items) == items

\* items or ["(нет данных)"]
OrPlaceholder(items) == IF items = <<>> THEN <<PLACEHOLDER>> ELSE items

\* ----------------------------------------------------------- image folders

\* Python's None: what dict.get returns for an absent key and what the image
\* picker returns without a picture.  No file is named so.
NONE == "None"

\* Directory entries: a name, its suffix (Path.suffix) and whether is_file().
EntryX == [name |-> "x.jpg", suffix |-> ".jpg", is_file |-> TRUE]
EntryY == [name |-> "y.PNG", suffix |-> ".PNG", is_file |-> TRUE]
EntryNotes == [name |-> "notes.txt", suffix |-> ".txt", is_file |-> TRUE]
EntryDir == [name |-> "old.png", suffix |-> ".png", is_file |-> FALSE]

\* A folder: listable or not (iterdir raises), and its entries.
FolderMissing == [ok |-> FALSE, entries |-> {}]
FolderOf(es) == [ok |-> TRUE, entries |-> es]
Folders ==
    {FolderMissing, FolderOf({EntryNotes, EntryDir}), FolderOf({EntryX, EntryNotes}),
     FolderOf({EntryX, EntryY, EntryDir})}

FoldersOf(u, c) ==
    IF <<u, c>> = Observed THEN Folders ELSE {FolderMissing, FolderOf({EntryNotes})}

\* str.lower on the suffixes of the model.
Lower(s) == CASE s = ".PNG" -> ".png" [] OTHER -> s

\* Variant: every regular file counts as a picture.
ListImagesAnyFile(folder) ==
    IF folder.ok THEN {p.name : p \in {e \in folder.entries : e.is_file}} ELSE {}

\* imgs: the names of the regular files with an image suffix; [] when the
\* folder cannot be listed.
ListImages(folder) ==
    IF folder.ok
    THEN {p.name : p \in {e \in folder.entries : e.is_file /\ Lower(e.suffix) \in IMG_EXTS}}
    ELSE {}

\* f"{cat_key}__last_image"
LastKey(cat_key) == cat_key \o "__last_image"

\* st.get(str(user_id), {}).get(last_key)
LastImage(st, user_id, cat_key) ==
    Get(Get(st, Str(user_id), EmptyDict), LastKey(cat_key), NONE)

\* Variant: the last picture is not excluded.
ImageChoicesAll(imgs, lastName) == imgs

\* Variant: no fallback to the full list.
ImageChoicesNoFallback(imgs, lastName) == {p \in imgs : p # lastName}

\* choices = [p for p in imgs if p.name != last] or imgs
ImageChoices(imgs, lastName) ==
    LET others == {p \in imgs : p # lastName}
    IN  IF others # {} THEN others ELSE imgs

\* Variant: the marker is not set.
SetLastImageNothing(st, user_id, cat_key, name) == st

\* Variant: the user's entry is replaced by one that holds the marker alone.
SetLastImageOnly(st, user_id, cat_key, name) ==
    Put(st, Str(user_id), Put(EmptyDict, LastKey(cat_key), name))

\* u = st.setdefault(str(user_id), {}); u[last_key] = img.name
SetLastImage(st, user_id, cat_key, name) ==
    LET st1 == SetDefault(st, Str(user_id), EmptyDict)
    IN  Put(st1, Str(user_id), Put(st1[Str(user_id)], LastKey(cat_key), name))

\* ------------------------------------------------------------------ state

VARIABLES
    file,     \* state.json
    last,     \* the pick that ran last: its inputs, what it saw and returned
    run,      \* the current run of text picks of the observed pair with one
              \* candidate sequence
    shown,    \* per (user, category): the picture the image picker chose last
    noted,    \* per (user, category): the fingerprint of the text returned last
    running,  \* the handler task the event loop is executing, 0 when none
    pc,       \* per task: the statement its handler is at
    loc       \* per task: the local variables of its handler and picks

loopVars == <<running, pc, loc>>
vars == <<file, last, run, shown, noted, running, pc, loc>>

\* Handler tasks in flight at one time.
Tasks == {1, 2}

NoLoc ==
    [user |-> 0, cat |-> "", items |-> <<>>, folder |-> [ok |-> FALSE, entries |-> {}],
     st |-> <<>>, cands |-> <<>>, imgs |-> {}]

Pairs == Users \X Cats

\* What state.json held: "missing", "garbage", or the document's type.
FileKind(f) == IF f.kind = "json" THEN f.type ELSE f.kind

\* The record of a call.  op: "text" or "image"; given: the list passed in;
\* items: the list after the placeholder rule; found: what state.json held
\* when it was read; seen: the fingerprints of the bucket as read; reset:
\* whether the bucket was cleared; cands: the list random.choice drew from;
\* ret: the value returned; raised: whether an exception left the call;
\* w1, w2: the outcomes of the write after a reset and of the final write;
\* imgs: the pictures listed; prev: the picture chosen by the call before;
\* sel: the picture chosen; root: the dict st of a text pick as it returns;
\* folder: the folder passed to an image pick.
NoCall ==
    [op |-> "none", user |-> 0, cat |-> "", given |-> <<>>, items |-> <<>>,
     found |-> "none", seen |-> {}, reset |-> FALSE, cands |-> <<>>, ret |-> NONE,
     raised |-> FALSE, w1 |-> "none", w2 |-> "none", imgs |-> {}, prev |-> NONE,
     sel |-> NONE, root |-> EmptyDict, folder |-> FolderMissing]

\* A run: its candidate sequence, whether its first pick found the bucket
\* empty, how many picks it has, and the last RECENT_N of them.
NoRun == [items |-> <<>>, fresh |-> FALSE, count |-> 0, picks |-> <<>>]

InitHistory ==
    /\ last = NoCall
    /\ run = NoRun
    /\ shown = [p \in Pairs |-> NONE]
    /\ noted = [p \in Pairs |-> NONE]
    /\ running = 0
    /\ pc = [t \in Tasks |-> "idle"]
    /\ loc = [t \in Tasks |-> NoLoc]

\* First run: no state.json.
Init == file = FileMissing /\ InitHistory

LastN(q) == IF Len(q) > RECENT_N THEN SubSeq(q, Len(q) - RECENT_N + 1, Len(q)) ELSE q

\* The run after a pick of text for the observed pair with candidates items.
NextRun(r, items, seen, text, reset) ==
    IF r.items = items
    THEN [r EXCEPT !.count = @ + 1,
                   !.picks = LastN(Append(@, [text |-> text, reset |-> reset]))]
    ELSE [items |-> items, fresh |-> (seen = {}), count |-> 1,
          picks |-> <<[text |-> text, reset |-> reset]>>]

\* pick_non_repeating(user_id, cat_key, given); w1 and w2 are the outcomes
\* of the write after a reset and of the final write.
PickText(user_id, cat_key, given, w1, w2) ==
    LET items == OrPlaceholder(given)
        ld == _load_state(file)
        call == [NoCall EXCEPT !.op = "text", !.user = user_id, !.cat = cat_key,
                               !.given = given, !.items = items,
                               !.found = FileKind(file)]
    IN  /\ (<<user_id, cat_key>> = Observed /\ run.items = items) => run.count < MaxRun
        /\ UNCHANGED loopVars
        /\ IF ld.type # "dict"
           THEN \* st.setdefault on a list: AttributeError leaves the call
                /\ last' = [call EXCEPT !.raised = TRUE]
                /\ UNCHANGED <<file, run, shown, noted>>
           ELSE LET st1 == UserBucketSt(ld.val, user_id, cat_key)
                    seen == Range(_user_bucket(ld.val, user_id, cat_key))
                    eligible == Eligible(items, seen)
                    reset == eligible = <<>>
                    st2 == IF reset THEN ResetBucket(st1, user_id, cat_key) ELSE st1
                    f1 == IF reset THEN _save_state(st2, file, w1) ELSE file
                    candidates == IF reset THEN items ELSE eligible
                    seenCall == [call EXCEPT !.seen = seen, !.reset = reset,
                                             !.cands = candidates,
                                             !.w1 = IF reset THEN w1 ELSE "none"]
                IN  IF candidates = <<>>
                    THEN \* random.choice of an empty list: IndexError
                         /\ file' = f1
                         /\ last' = [seenCall EXCEPT !.raised = TRUE]
                         /\ UNCHANGED <<run, shown, noted>>
                    ELSE \E i \in DOMAIN candidates :
                            LET choice == candidates[i]
                                st3 == _remember(st2, user_id, cat_key, _hash_text(choice))
                            IN  /\ file' = _save_state(st3, f1, w2)
                                /\ last' = [seenCall EXCEPT !.ret = choice, !.w2 = w2,
                                                         !.root = st3]
                                /\ run' = IF <<user_id, cat_key>> = Observed
                                          THEN NextRun(run, items, seen, choice, reset)
                                          ELSE run
                                /\ noted' = [noted EXCEPT ![<<user_id, cat_key>>] =
                                                _hash_text(choice)]
                                /\ UNCHANGED shown

\* pick_image_non_repeating(user_id, cat_key, folder); readable tells whether
\* img.read_bytes() succeeds, w is the outcome of the write.
PickImage(user_id, cat_key, folder, readable, w) ==
    LET imgs == ListImages(folder)
        ld == _load_state(file)
        call == [NoCall EXCEPT !.op = "image", !.user = user_id, !.cat = cat_key,
                               !.folder = folder, !.imgs = imgs,
                               !.prev = shown[<<user_id, cat_key>>]]
    IN  IF imgs = {}
        THEN \* return None before the state is read
             /\ last' = call
             /\ UNCHANGED <<file, run, shown, noted, loopVars>>
        ELSE IF ld.type # "dict"
        THEN \* st.get on a list: AttributeError leaves the call
             /\ last' = [call EXCEPT !.found = FileKind(file), !.raised = TRUE]
             /\ UNCHANGED <<file, run, shown, noted, loopVars>>
        ELSE LET choices == ImageChoices(imgs, LastImage(ld.val, user_id, cat_key))
             IN  IF choices = {}
                 THEN \* random.choice of an empty list: IndexError
                      /\ last' = [call EXCEPT !.found = FileKind(file), !.raised = TRUE]
                      /\ UNCHANGED <<file, run, shown, noted, loopVars>>
                 ELSE \E img \in choices :
                        /\ file' = _save_state(SetLastImage(ld.val, user_id, cat_key, img),
                                               file, w)
                        /\ last' = [call EXCEPT !.found = FileKind(file), !.sel = img,
                                                !.w2 = w,
                                                !.ret = IF readable THEN img ELSE NONE]
                        /\ shown' = [shown EXCEPT ![<<user_id, cat_key>>] = img]
                        /\ UNCHANGED <<run, noted, loopVars>>

\* Picks with a healthy state file.
Next ==
    \/ \E p \in Requests : \E items \in PoolsOf(p[1], p[2]) :
          PickText(p[1], p[2], items, "ok", "ok")
    \/ \E p \in Requests : \E folder \in FoldersOf(p[1], p[2]), readable \in BOOLEAN :
          PickImage(p[1], p[2], folder, readable, "ok")

Spec == Init /\ [][Next]_vars

\* ----------------------------------------------------- storage faults

\* state.json as the bot may find it at its first pick.
InitFault == file \in {FileMissing, FileGarbage, FileList} /\ InitHistory

\* Under faults the requests come from the pairs whose run is not followed:
\* one sees an empty list or two quotes and a folder that is missing, holds
\* no picture or holds two, the other one quote and no folder.
FaultRequests == Requests \ {Observed}

FaultPoolsOf(u, c) == IF u = 2 THEN {Prefix(0), Prefix(2)} ELSE {Prefix(1)}

FaultFoldersOf(u, c) ==
    IF u = 2
    THEN {FolderMissing, FolderOf({EntryNotes, EntryDir}), FolderOf({EntryX, EntryY, EntryDir})}
    ELSE {FolderMissing}

\* Picks whose writes may fail.
NextFault ==
    \/ \E p \in FaultRequests :
          \E items \in FaultPoolsOf(p[1], p[2]), w1, w2 \in WriteOutcomes :
             PickText(p[1], p[2], items, w1, w2)
    \/ \E p \in FaultRequests :
          \E folder \in FaultFoldersOf(p[1], p[2]), readable \in BOOLEAN, w \in WriteOutcomes :
             PickImage(p[1], p[2], folder, readable, w)

SpecFault == InitFault /\ [][NextFault]_vars

\* ------------------------------------------------- handlers on the loop

\* The handlers (songs_category and its siblings) are coroutines run as tasks
\* of one asyncio event loop: a task runs from where it is to its next await
\* before any other task runs.  A handler's only await is the reply it sends
\* after both picks.

\* Variant: any task may run at any time, as preemptive threads would.
CanRunAnytime(t) == TRUE

\* Whether the loop lets task t execute its next statement: the loop is
\* free, or t is the task it is executing.
CanRun(t) == running \in {0, t}

LoopRequests == Requests \ {Observed}
LoopPools == {Prefix(2)}
LoopFolders == {FolderMissing, FolderOf({EntryX, EntryY, EntryDir})}

\* The loop starts the handler of a new message in a free task.
Receive(t, user_id, cat_key, items, folder) ==
    /\ CanRun(t)
    /\ pc[t] = "idle"
    /\ running' = t
    /\ pc' = [pc EXCEPT ![t] = "text_load"]
    /\ loc' = [loc EXCEPT ![t] = [NoLoc EXCEPT !.user = user_id, !.cat = cat_key,
                                               !.items = OrPlaceholder(items),
                                               !.folder = folder]]
    /\ UNCHANGED <<file, last, run, shown, noted>>

\* pick_non_repeating, lines 73-75: load, read the bucket, filter.
TextLoad(t) ==
    /\ CanRun(t)
    /\ pc[t] = "text_load"
    /\ _load_state(file).type = "dict"
    /\ LET st1 == UserBucketSt(_load_state(file).val, loc[t].user, loc[t].cat)
           seen == Range(_user_bucket(_load_state(file).val, loc[t].user, loc[t].cat))
       IN  loc' = [loc EXCEPT ![t].st = st1, ![t].cands = Eligible(loc[t].items, seen)]
    /\ pc' = [pc EXCEPT ![t] = "text_reset"]
    /\ UNCHANGED <<file, last, run, shown, noted, running>>

\* Lines 76-79: with no candidate left, clear the bucket, save, take them all.
TextReset(t) ==
    /\ CanRun(t)
    /\ pc[t] = "text_reset"
    /\ IF loc[t].cands = <<>>
       THEN LET st2 == ResetBucket(loc[t].st, loc[t].user, loc[t].cat)
            IN  /\ file' = _save_state(st2, file, "ok")
                /\ loc' = [loc EXCEPT ![t].st = st2, ![t].cands = loc[t].items]
       ELSE UNCHANGED <<file, loc>>
    /\ pc' = [pc EXCEPT ![t] = "text_choose"]
    /\ UNCHANGED <<last, run, shown, noted, running>>

\* Lines 80-83: choose, remember, save, return.
TextChoose(t) ==
    /\ CanRun(t)
    /\ pc[t] = "text_choose"
    /\ \E i \in DOMAIN loc[t].cands :
          LET fp == _hash_text(loc[t].cands[i])
              st3 == _remember(loc[t].st, loc[t].user, loc[t].cat, fp)
          IN  /\ file' = _save_state(st3, file, "ok")
              /\ noted' = [noted EXCEPT ![<<loc[t].user, loc[t].cat>>] = fp]
              /\ loc' = [loc EXCEPT ![t].st = <<>>, ![t].cands = <<>>]
    /\ pc' = [pc EXCEPT ![t] = "image_list"]
    /\ UNCHANGED <<last, run, shown, running>>

\* pick_image_non_repeating, lines 86-93: list the folder, return None
\* without pictures, else load the state.
ImageLoad(t) ==
    /\ CanRun(t)
    /\ pc[t] = "image_list"
    /\ LET imgs == ListImages(loc[t].folder)
       IN  IF imgs = {}
           THEN /\ pc' = [pc EXCEPT ![t] = "reply"]
                /\ UNCHANGED loc
           ELSE /\ _load_state(file).type = "dict"
                /\ pc' = [pc EXCEPT ![t] = "image_choose"]
                /\ loc' = [loc EXCEPT ![t].st = _load_state(file).val, ![t].imgs = imgs]
    /\ UNCHANGED <<file, last, run, shown, noted, running>>

\* Lines 94-100: exclude the last picture, choose, set the marker, save.
ImageChoose(t) ==
    /\ CanRun(t)
    /\ pc[t] = "image_choose"
    /\ \E img \in ImageChoices(loc[t].imgs, LastImage(loc[t].st, loc[t].user, loc[t].cat)) :
          /\ file' = _save_state(SetLastImage(loc[t].st, loc[t].user, loc[t].cat, img),
                                 file, "ok")
          /\ shown' = [shown EXCEPT ![<<loc[t].user, loc[t].cat>>] = img]
    /\ pc' = [pc EXCEPT ![t] = "reply"]
    /\ loc' = [loc EXCEPT ![t].st = <<>>, ![t].imgs = {}]
    /\ UNCHANGED <<last, run, noted, running>>

\* await message.answer(...) / answer_photo(...): the task is suspended and
\* the loop is free to run another.
Reply(t) ==
    /\ CanRun(t)
    /\ pc[t] = "reply"
    /\ pc' = [pc EXCEPT ![t] = "awaiting"]
    /\ loc' = [loc EXCEPT ![t] = NoLoc]
    /\ running' = 0
    /\ UNCHANGED <<file, last, run, shown, noted>>

\* The reply is sent; the loop resumes the task, which returns.
Finish(t) ==
    /\ CanRun(t)
    /\ pc[t] = "awaiting"
    /\ pc' = [pc EXCEPT ![t] = "idle"]
    /\ running' = 0
    /\ UNCHANGED <<file, last, run, shown, noted, loc>>

NextLoop ==
    \/ \E t \in Tasks, p \in LoopRequests, items \in LoopPools, folder \in LoopFolders :
          Receive(t, p[1], p[2], items, folder)
    \/ \E t \in Tasks : TextLoad(t)
    \/ \E t \in Tasks : TextReset(t)
    \/ \E t \in Tasks : TextChoose(t)
    \/ \E t \in Tasks : ImageLoad(t)
    \/ \E t \in Tasks : ImageChoose(t)
    \/ \E t \in Tasks : Reply(t)
    \/ \E t \in Tasks : Finish(t)

\* The loop runs a ready task: some step is always taken.
SpecLoop == Init /\ [][NextLoop]_vars /\ WF_vars(NextLoop)

\* ------------------------------------------------------------ properties

\* The bucket and the picture marker of (user, category) as the next
\* _load_state will see them.
Persisted(f, user_id, cat_key) ==
    Get(Get(_load_state(f).val, Str(user_id), EmptyDict), cat_key, <<>>)

PersistedImage(f, user_id, cat_key) == LastImage(_load_state(f).val, user_id, cat_key)

FpSet(items) == {_hash_text(x) : x \in Range(items)}

DistinctTexts(items) == \A i, j \in DOMAIN items : i # j => items[i] # items[j]

NoRepeat(picks) ==
    \A i, j \in DOMAIN picks : i # j => _hash_text(picks[i].text) # _hash_text(picks[j].text)

\* The call recorded in last is the latest pick of the run.
LastIsRunPick ==
    last.op = "text" /\ <<last.user, last.cat>> = Observed /\ ~last.raised

\* C1 as stated: with a candidate sequence longer than RECENT_N, RECENT_N
\* consecutive picks of one run return no fingerprint twice.
C1_Original ==
    (Len(run.items) > RECENT_N /\ Len(run.picks) = RECENT_N) => NoRepeat(run.picks)

\* C1 amended: with a candidate sequence of more than RECENT_N distinct
\* fingerprints, the last RECENT_N picks of a run (any RECENT_N consecutive
\* picks, as every state of the run is checked) return no fingerprint twice.
C1_NoRepeatWithinRecentN ==
    Cardinality(FpSet(run.items)) > RECENT_N => NoRepeat(run.picks)

C1_Witness ==
    /\ Cardinality(FpSet(run.items)) > RECENT_N
    /\ ~run.fresh
    /\ run.count = MaxRun
    /\ Len(run.picks) = RECENT_N

\* C2: every recency bucket of the persisted root holds at most RECENT_N
\* fingerprints.
C2_BucketBounded ==
    \A p \in Pairs : Len(Persisted(file, p[1], p[2])) <= RECENT_N

C2_Witness ==
    /\ last.op = "text"
    /\ Cardinality(last.seen) = RECENT_N
    /\ ~last.reset
    /\ Len(Persisted(file, last.user, last.cat)) = RECENT_N

\* C3: a pick that finds every candidate's fingerprint in the bucket clears
\* the bucket and draws from the full candidate sequence: the bucket it
\* leaves holds the fingerprint of its choice alone.
C3_ResetLaw ==
    (last.op = "text" /\ \A x \in Range(last.items) : _hash_text(x) \in last.seen) =>
        /\ ~last.raised
        /\ last.reset
        /\ last.cands = last.items
        /\ Persisted(file, last.user, last.cat) = <<_hash_text(last.ret)>>

C3_Witness ==
    /\ last.op = "text"
    /\ last.reset
    /\ Len(last.items) = RECENT_N
    /\ Cardinality(last.seen) = RECENT_N

\* C4: with at least 2 pictures in the folder, the image picker does not
\* choose the picture that the call before it chose for the same pair.
C4_NoImmediateImageRepeat ==
    (/\ last.op = "image"
     /\ last.sel # NONE
     /\ last.prev # NONE
     /\ Cardinality(last.imgs) >= 2) => last.sel # last.prev

C4_Witness ==
    /\ last.op = "image"
    /\ last.sel # NONE
    /\ last.prev \in last.imgs
    /\ Cardinality(last.imgs) >= 2

\* C5: the text picker returns a member of the list passed in (the
\* placeholder for an empty list), and one whose fingerprint the bucket held
\* only if it held every candidate's.
C5_ReturnsEligibleCandidate ==
    last.op = "text" =>
        /\ ~last.raised
        /\ IF last.given = <<>> THEN last.ret = PLACEHOLDER
           ELSE last.ret \in Range(last.given)
        /\ _hash_text(last.ret) \in last.seen
              => \A x \in Range(last.items) : _hash_text(x) \in last.seen

C5_Witness ==
    /\ last.op = "text"
    /\ ~last.reset
    /\ last.seen # {}
    /\ Len(last.cands) < Len(last.items)
    /\ Len(last.cands) >= 2

\* C6: from an empty bucket, the first n picks with n <= RECENT_N distinct
\* candidates return each candidate once, without a reset, and the n-th
\* pick finds exactly one eligible candidate.
C6_FirstPicksPermutation ==
    (/\ run.fresh
     /\ DistinctTexts(run.items)
     /\ Len(run.items) <= RECENT_N
     /\ run.count <= Len(run.items)) =>
        /\ Len(run.picks) = run.count
        /\ \A i \in DOMAIN run.picks :
              run.picks[i].text \in Range(run.items) /\ ~run.picks[i].reset
        /\ \A i, j \in DOMAIN run.picks : i # j => run.picks[i].text # run.picks[j].text
        /\ run.count = Len(run.items)
              => {run.picks[i].text : i \in DOMAIN run.picks} = Range(run.items)
        /\ (run.count = Len(run.items) /\ LastIsRunPick) => Len(last.cands) = 1

C6_Witness ==
    /\ run.fresh
    /\ DistinctTexts(run.items)
    /\ Len(run.items) = RECENT_N
    /\ run.count = RECENT_N
    /\ LastIsRunPick

\* C7 as stated: whatever state.json holds that is not a state root, the
\* text pick reads an empty root, does not raise and returns a candidate.
C7_InvalidFileRecovered ==
    (last.op = "text" /\ last.found # "dict") =>
        /\ ~last.raised
        /\ last.seen = {}
        /\ last.ret \in Range(last.items)

Failed(w) == w \in {"denied", "partial"}

\* C8 as stated: a pick whose final write fails returns its selection and
\* leaves the persisted state as it was before that write: every bucket and
\* marker as before the pick, but for the pick's own bucket when its reset
\* cleared it.
C8_FailedWriteLosesOnlyThisTurn ==
    [][Failed(last'.w2) =>
          /\ ~last'.raised
          /\ IF last'.op = "text" THEN last'.ret \in Range(last'.items)
             ELSE last'.sel \in last'.imgs
          /\ \A p \in Pairs :
                /\ PersistedImage(file', p[1], p[2]) = PersistedImage(file, p[1], p[2])
                /\ \/ Persisted(file', p[1], p[2]) = Persisted(file, p[1], p[2])
                   \/ /\ p = <<last'.user, last'.cat>>
                      /\ last'.reset
                      /\ Persisted(file', p[1], p[2]) = <<>>]_vars

\* C10: with exactly one picture in the folder the image picker chooses it,
\* also when it is the picture chosen last.
C10_SinglePictureAlwaysChosen ==
    (last.op = "image" /\ Cardinality(last.imgs) = 1) =>
        /\ ~last.raised
        /\ last.sel \in last.imgs

C10_Witness ==
    /\ last.op = "image"
    /\ Cardinality(last.imgs) = 1
    /\ last.sel \in last.imgs
    /\ last.prev = last.sel
    /\ PersistedImage(file, last.user, last.cat) = last.sel

\* Some task is between the load and the final save of a text pick for p.
MidText(p) ==
    \E t \in Tasks :
        pc[t] \in {"text_reset", "text_choose"} /\ <<loc[t].user, loc[t].cat>> = p

\* The persisted root lacks the update some completed pick recorded.
LostUpdate ==
    \E p \in Pairs :
        \/ /\ noted[p] # NONE
           /\ ~MidText(p)
           /\ \/ Persisted(file, p[1], p[2]) = <<>>
              \/ Persisted(file, p[1], p[2])[Len(Persisted(file, p[1], p[2]))] # noted[p]
        \/ /\ shown[p] # NONE
           /\ PersistedImage(file, p[1], p[2]) # shown[p]

\* C9 as stated: the handlers' picks interleave so that one save overwrites
\* another pick's update.
C9_LostUpdateHappens == <>LostUpdate

\* C9 amended: the picks of concurrently running handlers do not interleave,
\* and the persisted root keeps every pick's update.
C9_NoLostUpdate == ~LostUpdate

\* Two handlers for different users and categories in flight together, both
\* past their picks.
C9_Witness ==
    /\ pc[1] = "awaiting"
    /\ pc[2] = "reply"
    /\ \E p, q \in Pairs :
          /\ p[1] # q[1]
          /\ p[2] # q[2]
          /\ noted[p] # NONE /\ shown[p] # NONE
          /\ noted[q] # NONE /\ shown[q] # NONE

\* C11 as stated: reading the bucket leaves the root unchanged: the root a
\* text pick holds after _user_bucket (line 74) is the root it loaded, with
\* no user entry and no category key added.
C11_ReadLeavesRootUnchanged ==
    \A t \in Tasks :
        pc[t] = "text_reset" =>
            /\ DOMAIN loc[t].st = DOMAIN _load_state(file).val
            /\ loc[t].st = _load_state(file).val

\* The persisted root: what the next _load_state returns.
Root(f) == _load_state(f).val

\* Roots r and s agree on every entry of every user other than user_id and
\* on every key of user_id's entry other than key.
SameButFor(r, s, user_id, key) ==
    /\ \A x \in (DOMAIN r) \cup (DOMAIN s) :
          x # Str(user_id) => x \in DOMAIN r /\ x \in DOMAIN s /\ r[x] = s[x]
    /\ LET ur == Get(r, Str(user_id), EmptyDict)
           us == Get(s, Str(user_id), EmptyDict)
       IN  \A y \in (DOMAIN ur) \cup (DOMAIN us) :
              y # key => y \in DOMAIN ur /\ y \in DOMAIN us /\ ur[y] = us[y]

\* C12: a text pick for (u, c) changes in the persisted root at most the key
\* c of u's entry, an image pick that chooses a picture at most the key
\* c__last_image of u's entry, and an image pick without pictures nothing.
C12_PickFrame ==
    [][/\ (last'.op = "text" /\ ~last'.raised) =>
             SameButFor(Root(file), Root(file'), last'.user, last'.cat)
       /\ (last'.op = "image" /\ last'.sel # NONE) =>
             SameButFor(Root(file), Root(file'), last'.user, LastKey(last'.cat))
       /\ (last'.op = "image" /\ last'.sel = NONE) => Root(file') = Root(file)]_vars

\* An image pick for a user who has two buckets and a marker, beside another
\* user's entry.
C12_Witness ==
    /\ last.op = "image"
    /\ last.sel # NONE
    /\ last.prev # NONE
    /\ Persisted(file, last.user, "songs") # <<>>
    /\ Persisted(file, last.user, "affirmations") # <<>>
    /\ \E u \in Users : u # last.user /\ Str(u) \in DOMAIN Root(file)

\* C13: _remember leaves as the bucket the last RECENT_N elements of the
\* old bucket followed by the new fingerprint: of that sequence only a
\* leading part is dropped, the order is kept and the fingerprint is last.
\* The old bucket is the one the pick read, or the empty one after a reset.
C13_RememberKeepsLastRecentN ==
    [][(last'.op = "text" /\ ~last'.raised) =>
          LET old == IF last'.reset THEN <<>>
                     ELSE Persisted(file, last'.user, last'.cat)
              all == Append(old, _hash_text(last'.ret))
              new == Persisted(file', last'.user, last'.cat)
              drop == IF Len(all) > RECENT_N THEN Len(all) - RECENT_N ELSE 0
          IN  /\ Len(new) = Len(all) - drop
              /\ \A i \in DOMAIN new : new[i] = all[drop + i]
              /\ new[Len(new)] = _hash_text(last'.ret)]_vars

\* A pick that found the bucket full and did not reset: the oldest entry
\* was dropped.
C13_Witness ==
    /\ last.op = "text"
    /\ ~last.reset
    /\ Cardinality(last.seen) = RECENT_N
    /\ Len(Persisted(file, last.user, last.cat)) = RECENT_N
    /\ Persisted(file, last.user, last.cat)[RECENT_N] = _hash_text(last.ret)
    /\ \A i \in 1..(RECENT_N - 1) : Persisted(file, last.user, last.cat)[i] \in last.seen

\* C14: after a text pick whose writes succeeded, the persisted bucket of
\* its (user, category) is not empty and ends with the fingerprint of the
\* text returned, and the persisted root is the dict the pick worked on.
C14_PersistedAfterPick ==
    (last.op = "text" /\ last.w2 = "ok" /\ ~Failed(last.w1)) =>
        /\ ~last.raised
        /\ Persisted(file, last.user, last.cat) # <<>>
        /\ Persisted(file, last.user, last.cat)[Len(Persisted(file, last.user, last.cat))]
              = _hash_text(last.ret)
        /\ _load_state(file).type = "dict"
        /\ Root(file) = last.root

\* A pick among two candidates that cleared the bucket, both of its writes
\* succeeding.
C14_Witness ==
    /\ last.op = "text"
    /\ last.reset
    /\ last.w1 = "ok"
    /\ last.w2 = "ok"
    /\ Len(last.items) = 2
    /\ Persisted(file, last.user, last.cat) = <<_hash_text(last.ret)>>

\* C15: a pick that resets draws from the whole candidate sequence, the
\* text of the pick before it included, and the bucket it leaves keeps no
\* fingerprint from before the reset: the fingerprint of the text shown just
\* before is in it only when the reset pick returned that text again.
C15_ResetReadmitsLastShown ==
    (LastIsRunPick /\ last.reset /\ Len(run.picks) >= 2) =>
        LET before == run.picks[Len(run.picks) - 1].text
        IN  /\ before \in Range(last.cands)
            /\ _hash_text(before) \in Range(Persisted(file, last.user, last.cat))
                  => last.ret = before

\* Two consecutive picks of a run with between 2 and RECENT_N distinct
\* candidates returned the same text, the second after a reset.
C15_Witness ==
    /\ LastIsRunPick
    /\ last.reset
    /\ DistinctTexts(run.items)
    /\ Len(run.items) >= 2
    /\ Len(run.items) <= RECENT_N
    /\ Len(run.picks) >= 2
    /\ run.picks[Len(run.picks) - 1].text = last.ret
    /\ run.picks[Len(run.picks)].text = last.ret

\* C16: the lines of a candidate sequence that carry one text are eligible
\* or not together.  A pick that does not reset draws from exactly the lines
\* whose fingerprint the bucket lacks, so no line with a text the bucket
\* remembers; and within the last RECENT_N picks of a run, a text returned
\* is not returned again unless a reset came between.
C16_EqualTextsOnePoolEntry ==
    /\ (last.op = "text" /\ ~last.raised /\ ~last.reset) =>
          /\ \A i \in DOMAIN last.items :
                _hash_text(last.items[i]) \in last.seen
                   => last.items[i] \notin Range(last.cands)
          /\ Len(last.cands) =
                Cardinality({i \in DOMAIN last.items : _hash_text(last.items[i]) \notin last.seen})
    /\ \A i, j \in DOMAIN run.picks :
          (i < j /\ \A k \in (i + 1)..j : ~run.picks[k].reset)
             => run.picks[i].text # run.picks[j].text

\* A pick of the run over the sequence with repeated lines, right after a
\* pick that returned a text carried by two lines.
C16_Witness ==
    /\ LastIsRunPick
    /\ ~last.reset
    /\ run.items = DupPool
    /\ Len(run.picks) >= 2
    /\ Cardinality({i \in DOMAIN last.items :
                       last.items[i] = run.picks[Len(run.picks) - 1].text}) >= 2
    /\ run.picks[Len(run.picks) - 1].text \notin Range(last.cands)

\* C17: an image pick whose picture cannot be read returns None without
\* raising, with the marker of its (user, category) persisted as the
\* picture it chose.  The marker stays until the next image pick that
\* chooses for the same pair, and a pick with at least 2 pictures chooses
\* one that is not the persisted marker: so the pick after an unread
\* picture does not choose that picture.
C17_UnreadPictureStillMarked ==
    [][/\ (last'.op = "image" /\ last'.sel # NONE /\ last'.ret = NONE) =>
             /\ ~last'.raised
             /\ PersistedImage(file', last'.user, last'.cat) = last'.sel
       /\ \A p \in Pairs :
             ~(last'.op = "image" /\ last'.sel # NONE /\ <<last'.user, last'.cat>> = p)
                => PersistedImage(file', p[1], p[2]) = PersistedImage(file, p[1], p[2])
       /\ (last'.op = "image" /\ Cardinality(last'.imgs) >= 2) =>
             /\ last'.sel \in last'.imgs
             /\ last'.sel # PersistedImage(file, last'.user, last'.cat)
       /\ (/\ last.op = "image" /\ last.sel # NONE /\ last.ret = NONE
           /\ last'.op = "image" /\ Cardinality(last'.imgs) >= 2
           /\ <<last'.user, last'.cat>> = <<last.user, last.cat>>) =>
             last'.sel # last.sel]_vars

\* A pick among two pictures whose choice could not be read, after an
\* earlier choice for the same pair.
C17_Witness ==
    /\ last.op = "image"
    /\ Cardinality(last.imgs) >= 2
    /\ last.sel \in last.imgs
    /\ last.ret = NONE
    /\ last.prev \in last.imgs
    /\ PersistedImage(file, last.user, last.cat) = last.sel

\* The folder cannot be listed or holds no regular file named .jpg, .jpeg
\* or .png in either case of letters.
NoPicture(folder) ==
    ~folder.ok \/ ~\E e \in folder.entries : e.is_file /\ Lower(e.suffix) \in IMG_EXTS

\* C18: an image pick over a folder that is missing or unlistable, or that
\* holds no picture, returns None without raising and without reading or
\* writing state.json, which stays as it was, marker included.
C18_NoPictureNoStateAccess ==
    [][(last'.op = "image" /\ NoPicture(last'.folder)) =>
          /\ ~last'.raised
          /\ last'.ret = NONE
          /\ last'.sel = NONE
          /\ last'.found = "none"
          /\ file' = file]_vars

\* A pick over a folder that holds entries but no picture, for a pair whose
\* marker an earlier pick has set.
C18_Witness ==
    /\ last.op = "image"
    /\ last.folder.ok
    /\ last.folder.entries # {}
    /\ NoPicture(last.folder)
    /\ last.ret = NONE
    /\ PersistedImage(file, last.user, last.cat) # NONE
    /\ PersistedImage(file, last.user, last.cat) = shown[<<last.user, last.cat>>]

\* C19: no recency bucket of the persisted root holds a fingerprint twice.
C19_BucketEntriesDistinct ==
    \A p \in Pairs :
        \A i, j \in DOMAIN Persisted(file, p[1], p[2]) :
            i # j => Persisted(file, p[1], p[2])[i] # Persisted(file, p[1], p[2])[j]

\* A full bucket right after the first pick with a candidate sequence other
\* than the one of the picks before, which found fingerprints in the bucket.
C19_Witness ==
    /\ LastIsRunPick
    /\ run.count = 1
    /\ ~run.fresh
    /\ last.seen # {}
    /\ Len(Persisted(file, last.user, last.cat)) = RECENT_N

\* The number within its run of the i-th pick of the window run.picks.
PickNo(i) == run.count - Len(run.picks) + i

\* C20: in a run that began with an empty bucket, over n <= RECENT_N
\* distinct candidates, a pick resets exactly when its number is n+1, 2n+1,
\* 3n+1, ..., the picks of one block kn+1 .. (k+1)n return different texts,
\* and a complete block returns every candidate.
C20_ResetEveryNPicks ==
    (/\ run.count >= 1
     /\ run.fresh
     /\ DistinctTexts(run.items)
     /\ Len(run.items) <= RECENT_N) =>
        LET n == Len(run.items)
        IN  /\ \A i \in DOMAIN run.picks :
                  run.picks[i].reset <=> (PickNo(i) > n /\ (PickNo(i) - 1) % n = 0)
            /\ \A i, j \in DOMAIN run.picks :
                  (i # j /\ (PickNo(i) - 1) \div n = (PickNo(j) - 1) \div n)
                     => run.picks[i].text # run.picks[j].text
            /\ \A i \in DOMAIN run.picks :
                  (PickNo(i) % n = 0 /\ i >= n)
                     => {run.picks[k].text : k \in (i - n + 1)..i} = Range(run.items)

\* The pick after two complete blocks of RECENT_N candidates: the second
\* reset of the run.
C20_Witness ==
    /\ run.fresh
    /\ DistinctTexts(run.items)
    /\ Len(run.items) = RECENT_N
    /\ run.count = 2 * RECENT_N + 1
    /\ LastIsRunPick
    /\ last.reset

====
